---- MODULE Spec2Model ----
(***************************************************************************)
(* Model of the multi_recorder capture orchestrator: Recorder              *)
(* (recorder.py), the background threads and MainWindow handlers (gui.py)  *)
(* and the exit-time cleanup (main.py).                                    *)
(*                                                                         *)
(* The GUI thread runs one handler at a time (mainPc).  Recorder.start()   *)
(* is split per task and Recorder.stop() per record, so that the encoder   *)
(* processes and the background threads can act in between.                *)
(***************************************************************************)
EXTENDS Integers, Sequences, FiniteSets, TLC

(* ---------------------------- bounds ----------------------------------- *)
MaxLaunches == 2      \* encoder processes spawned during one run
MaxTasks == 2         \* tasks selected for one session
MaxQueue == 2         \* queued status signals when a monitor iteration begins
MaxNameLen == 3       \* characters of a name given to sanitize_filename
MaxSide == 3          \* width and height of a selected rectangle

Pids == 1..MaxLaunches
Sessions == 1..MaxLaunches     \* sessions that launched at least one process

(* ------------------------- program constants --------------------------- *)
SupportedSystems == {"Windows", "Linux", "Darwin"}
Systems == {"Linux", "Other"}     \* values of platform.system() explored
ExitCodes == {0, 1}               \* exit codes of a process that exits by itself
Kinds == {"disk", "ram"}

(* The device catalog the task collector selects from, in the order        *)
(* Recorder.start() walks the three task lists.                            *)
\* Monitor ids are the screeninfo indices, Webcam ids the OpenCV indices
\* with name f"Webcam {i}", AudioDevice ids the soundcard ids with name
\* f"[Input] {dev.name}": two microphones of the same model have two ids
\* and one name.
Catalog ==
  << [kind |-> "Screen", id |-> "0",     name |-> "Display 0"],
     [kind |-> "Webcam", id |-> "0",     name |-> "Webcam 0"],
     [kind |-> "Audio",  id |-> "mic-1", name |-> "[Input] USB Mic"],
     [kind |-> "Audio",  id |-> "mic-2", name |-> "[Input] USB Mic"] >>

RECURSIVE Pick(_, _)
Pick(sel, i) ==
  IF i > Len(Catalog) THEN << >>
  ELSE IF i \in sel THEN << Catalog[i] >> \o Pick(sel, i + 1)
       ELSE Pick(sel, i + 1)

\* gather_recording_settings: every non-empty selection, screens first,
\* then webcams, then audio devices
TaskSets ==
  { Pick(sel, 1) : sel \in { s \in SUBSET (1..Len(Catalog)) :
                               Cardinality(s) \in 1..MaxTasks } }

VARIABLES
  system,            \* Recorder.system (platform.system())
  mainPc,            \* position of the GUI thread
  session,           \* number of sessions that started their monitors
  recorder,          \* MainWindow.recorder is set
  nTasks,            \* number of tasks the Recorder was constructed with
  tasks,             \* the tasks Recorder.start() has still to walk, in order
  outcome,           \* per task start() attempted: "ok", "resolve_failed", "spawn_failed"
  processes,         \* Recorder.processes: sequence of [pid, task_name]
  is_recording,      \* MainWindow.is_recording
  global_pids,       \* main.ALL_PIDS / MainWindow.global_pids
  startResult,       \* what the last start reported: "none", "ok", "failed"
  procState,         \* OS view of each pid: "unborn", "alive", "exited"
  exitCode,          \* exit code of an exited process
  stopCtx,           \* caller of the running stop(): "toggle", "close", "hook"
  stopIdx,           \* position of Recorder.stop() in processes
  stopSet,           \* pids in the collection when stop() was called
  handled,           \* pids stop() has reached in this call
  trace,             \* the psutil calls stop() made for the last record, with results
  stopErrors,        \* pids stop() logged an error for in this call
  stopCalls,         \* completed stop() calls on the current Recorder
  process_monitor_thread, \* session of MainWindow.process_monitor_thread, 0 = None
  mon,               \* per session: ProcessMonitorThread
  guard,             \* per session: ResourceMonitorThread
  low,               \* per resource kind: it is below its threshold now
  log_reader_threads,\* MainWindow.log_reader_threads: << pid, stream, running >>
  queue,             \* process_status_update signals queued for the GUI thread
  reportedTerminal,  \* pids a terminal status has been emitted for
  cleanupKills,      \* pids cleanup_processes sent a kill to
  launchErrors,      \* errors Recorder.start() logged: [label, error]
  confirmed,         \* pids whose exit stop() or a terminal status confirmed
  stdin,             \* per pid: the bytes written to the process's stdin pipe
  name,              \* argument of sanitize_filename
  sanitized,         \* result of sanitize_filename
  rect,              \* the rectangle SelectionOverlay emitted last
  area_geo,          \* ui_widgets['monitors'][id]['area_geo'], << >> = None
  screenInput,       \* geometry _get_screen_input hands to ffmpeg.input
  fs,                \* the file system: the base directory and the project directory
  project_dir,       \* Recorder.project_dir: "none", "project" or "base"
  indicator,         \* per device widget: what its status_label shows
  pid_to_widget_map, \* MainWindow.pid_to_widget_map: pid -> widget, 0 = no entry
  reader,            \* per pid and stream: the LogReaderThread
  lastStatus         \* per pid: the status emitted last, "none" before the first

fnVars == << name, sanitized, rect, area_geo, screenInput >>
dirVars == << fs, project_dir >>
uiVars == << indicator, pid_to_widget_map >>
restVars == << dirVars, uiVars, reader, lastStatus >>

vars == << system, mainPc, session, recorder, nTasks, tasks, outcome,
           processes, is_recording, global_pids, startResult, procState,
           exitCode, stopCtx, stopIdx, stopSet, handled, trace, stopErrors,
           stopCalls, process_monitor_thread, mon, guard, low,
           log_reader_threads, queue, reportedTerminal, cleanupKills,
           launchErrors, confirmed, stdin, fnVars, restVars >>

startVars == << nTasks, tasks, outcome, startResult, launchErrors >>
osVars == << procState, exitCode >>
stopVars == << stopCtx, stopIdx, stopSet, handled, trace, stopErrors,
               stopCalls >>
threadVars == << process_monitor_thread, mon, guard, low, log_reader_threads,
                 queue, reportedTerminal >>

(* ------------------------------ helpers -------------------------------- *)
RecordPids(recs) == { recs[i].pid : i \in 1..Len(recs) }

Alive(p) == procState[p] = "alive"

Spawned == { p \in Pids : procState[p] # "unborn" }

NextPid == Cardinality(Spawned) + 1

\* task labels of Recorder.start(): f"Screen {task['monitor'].id}",
\* f"Webcam {task.name}", f"Audio {task.name}"
TaskName(task) ==
  IF task.kind = "Screen" THEN << "Screen", task.id >>
  ELSE << task.kind, task.name >>

MonOff == [pc |-> "off", idx |-> 0, running |-> FALSE, list |-> << >>]
GuardOff == [pc |-> "off", running |-> FALSE, disk_warning_sent |-> FALSE,
             ram_warning_sent |-> FALSE,
             warned |-> [k \in Kinds |-> 0],
             polledLow |-> [k \in Kinds |-> FALSE]]

NoRect == [x |-> 0, y |-> 0, w |-> 0, h |-> 0]

\* nothing has been sanitized and no area has been selected
InitFn ==
  /\ name = << >>
  /\ sanitized = << >>
  /\ rect = NoRect
  /\ area_geo = << >>
  /\ screenInput = << >>

InitProgram ==
  /\ system \in Systems
  /\ mainPc = "idle"
  /\ session = 0
  /\ recorder = FALSE
  /\ nTasks = 0
  /\ tasks = << >>
  /\ outcome = << >>
  /\ processes = << >>
  /\ is_recording = FALSE
  /\ global_pids = {}
  /\ startResult = "none"
  /\ procState = [p \in Pids |-> "unborn"]
  /\ exitCode = [p \in Pids |-> 0]
  /\ stopCtx = "none"
  /\ stopIdx = 0
  /\ stopSet = {}
  /\ handled = {}
  /\ trace = << >>
  /\ stopErrors = {}
  /\ stopCalls = 0
  /\ process_monitor_thread = 0
  /\ mon = [s \in Sessions |-> MonOff]
  /\ guard = [s \in Sessions |-> GuardOff]
  /\ low = [k \in Kinds |-> FALSE]
  /\ log_reader_threads = << >>
  /\ queue = << >>
  /\ reportedTerminal = {}
  /\ cleanupKills = {}
  /\ launchErrors = << >>
  /\ confirmed = {}
  /\ stdin = [p \in Pids |-> << >>]

Streams == {"stdout", "stderr"}

\* the device widgets of the window, one per device of the catalog
Widgets == 1..Len(Catalog)

\* reset_status_indicators: every status_label shows the default circle
ResetIndicators == [w \in Widgets |-> "reset"]

ReaderOff == [pc |-> "off", running |-> FALSE]

\* The file systems a Recorder may be constructed on.  base: the directory
\* save_path or ~/Videos is missing, exists read-only, or exists writable;
\* project: the directory Multi_Recorder_<timestamp> exists in it.
FileSystems == [base : {"missing", "readonly", "writable"}, project : {FALSE}]

UsableFs == [base |-> "writable", project |-> FALSE]

\* no Recorder, no widget status, no threads yet
InitRest ==
  /\ project_dir = "none"
  /\ indicator = ResetIndicators
  /\ pid_to_widget_map = [p \in Pids |-> 0]
  /\ reader = [p \in Pids |-> [st \in Streams |-> ReaderOff]]
  /\ lastStatus = [p \in Pids |-> "none"]

\* the application is started where it can write its recordings
Init == InitProgram /\ InitFn /\ InitRest /\ fs = UsableFs

(* --------------------------- sanitize_filename -------------------------- *)
\* a name is a sequence of characters; the characters explored
Chars == {"[", "]", " ", "\n", "a", ":"}

Names == UNION { [1..n -> Chars] : n \in 0..MaxNameLen }

\* what \s matches and str.strip() removes
Whitespace == {" ", "\n", "\t", "\r"}

\* the character class [\\/*?:"<>|] of the second re.sub
InvalidChars == {"\\", "/", "*", "?", ":", "\"", "<", ">", "|"}

\* the positions of s, after its first character, that hold a "]"
Closers(s) == { j \in 2..Len(s) : s[j] = "]" }

\* where the match of \[.*?\] that starts at the head of s ends, 0 if there
\* is none: the first "]", unless a newline (which . does not match) comes
\* before it
CloseAt(s) ==
  IF s = << >> \/ s[1] # "[" \/ Closers(s) = {} THEN 0
  ELSE LET j == CHOOSE c \in Closers(s) : \A d \in Closers(s) : c <= d
       IN IF \E k \in 2..(j - 1) : s[k] = "\n" THEN 0 ELSE j

\* s without its leading whitespace (\s* after a match, the left of strip)
RECURSIVE LStrip(_)
LStrip(s) ==
  IF s # << >> /\ s[1] \in Whitespace THEN LStrip(Tail(s)) ELSE s

RECURSIVE RStrip(_)
RStrip(s) ==
  IF s # << >> /\ s[Len(s)] \in Whitespace
  THEN RStrip(SubSeq(s, 1, Len(s) - 1))
  ELSE s

\* re.sub(r'\[.*?\]\s*', '', name): every match is removed, from the left
RECURSIVE RemoveBracketed(_)
RemoveBracketed(s) ==
  IF s = << >> THEN << >>
  ELSE IF CloseAt(s) # 0
       THEN RemoveBracketed(LStrip(SubSeq(s, CloseAt(s) + 1, Len(s))))
       ELSE << s[1] >> \o RemoveBracketed(Tail(s))

\* mutant: the colon is missing from the character class
ReplaceInvalid_NoColon(s) ==
  [i \in 1..Len(s) |->
     IF s[i] \in InvalidChars \ {":"} THEN "_" ELSE s[i]]

\* re.sub(r'[\\/*?:"<>|]', "_", name)
ReplaceInvalid(s) ==
  [i \in 1..Len(s) |-> IF s[i] \in InvalidChars THEN "_" ELSE s[i]]

\* str.strip()
Strip(s) == RStrip(LStrip(s))

sanitize_filename(s) == Strip(ReplaceInvalid(RemoveBracketed(s)))

(* ------------------------------ output files --------------------------- *)
\* the characters of the device names of the catalog
Characters(n) ==
  CASE n = "Display 0" ->
         << "D", "i", "s", "p", "l", "a", "y", " ", "0" >>
    [] n = "Webcam 0" ->
         << "W", "e", "b", "c", "a", "m", " ", "0" >>
    [] n = "[Input] USB Mic" ->
         << "[", "I", "n", "p", "u", "t", "]", " ",
            "U", "S", "B", " ", "M", "i", "c" >>

\* ".mp4" for the screen and webcam tasks, ".mp3" for the audio tasks
Extension(kind) == IF kind = "Audio" THEN ".mp3" ELSE ".mp4"

\* filename of Recorder.start(), relative to project_dir:
\* f"{sanitize_filename(name)}.mp4" / f"{sanitize_filename(task.name)}.mp3"
OutputPath(task) ==
  << sanitize_filename(Characters(task.name)), Extension(task.kind) >>

(* --------------------------- project directory -------------------------- *)
\* os.makedirs(project_path, exist_ok=True) on file system f: the file
\* system it leaves and whether it raised OSError.  An existing project
\* directory is no error; a writable base gets the project directory; a
\* read-only base raises; a missing base is created first when its parent
\* allows it, and raises otherwise.
Makedirs(f) ==
  IF f.project THEN { [fs |-> f, error |-> FALSE] }
  ELSE IF f.base = "writable"
  THEN { [fs |-> [f EXCEPT !.project = TRUE], error |-> FALSE] }
  ELSE IF f.base = "readonly" THEN { [fs |-> f, error |-> TRUE] }
  ELSE { [fs |-> [base |-> "writable", project |-> TRUE], error |-> FALSE],
         [fs |-> f, error |-> TRUE] }

\* _create_project_directory: project_path, or base_path after an OSError
create_project_directory(m) == IF m.error THEN "base" ELSE "project"

\* the directory d exists on file system f
DirExists(f, d) ==
  CASE d = "project" -> f.project
    [] d = "base" -> f.base # "missing"
    [] OTHER -> FALSE

(* ------------------------------ status labels --------------------------- *)
RECURSIVE WidgetsOf(_, _)
WidgetsOf(kind, w) ==
  IF w > Len(Catalog) THEN << >>
  ELSE IF Catalog[w].kind = kind THEN << w >> \o WidgetsOf(kind, w + 1)
       ELSE WidgetsOf(kind, w + 1)

\* self.ui_widgets['audio'] + self.ui_widgets['webcams']
AudioAndWebcamWidgets == WidgetsOf("Audio", 1) \o WidgetsOf("Webcam", 1)

\* the lookup table of build_pid_map, 0 when the label is no key of it:
\* f"Screen {monitor_id}" for every monitor, and both f"Audio {name}" and
\* f"Webcam {name}" for every audio and webcam widget, a later widget
\* replacing an earlier one with the same name
task_name_to_widget(label) ==
  IF label[1] = "Screen"
  THEN LET ws == { w \in Widgets : /\ Catalog[w].kind = "Screen"
                                   /\ Catalog[w].id = label[2] }
       IN IF ws = {} THEN 0 ELSE CHOOSE w \in ws : TRUE
  ELSE LET order == AudioAndWebcamWidgets
           hits == { i \in 1..Len(order) : Catalog[order[i]].name = label[2] }
       IN IF hits = {} THEN 0
          ELSE order[CHOOSE i \in hits : \A j \in hits : j <= i]

\* build_pid_map(processes)
build_pid_map(recs) ==
  [p \in Pids |->
     IF \E i \in 1..Len(recs) : recs[i].pid = p
     THEN LET i == CHOOSE k \in 1..Len(recs) : recs[k].pid = p
          IN task_name_to_widget(recs[i].task_name)
     ELSE 0]

\* the widgets whose checkbox is checked, for the selection ts
Selected(ts) ==
  { w \in Widgets : \E i \in 1..Len(ts) : ts[i] = Catalog[w] }

\* reset_status_indicators, then set_status_for_selected("pending")
PendingFor(ts) ==
  [w \in Widgets |-> IF w \in Selected(ts) THEN "pending" ELSE "reset"]

(* ------------------- MainWindow.toggle_recording: start ----------------- *)
\* mutant: the record button starts a session whatever the flag says
TakesStartBranch_Always(recording) == TRUE

\* if self.is_recording: ... else: ... -- the branch that starts a session is
\* taken when the flag is false
TakesStartBranch(recording) == ~recording

\* the else branch up to self.recorder = Recorder(**settings)
ToggleStart ==
  /\ mainPc = "idle"
  /\ TakesStartBranch(is_recording)
  /\ \E ts \in TaskSets :
       /\ tasks' = ts
       /\ nTasks' = Len(ts)
       /\ indicator' = PendingFor(ts)
       /\ outcome' = << >>
       /\ launchErrors' = << >>
       /\ processes' = << >>
       /\ recorder' = TRUE
       /\ stopCalls' = 0
       /\ startResult' = "none"
       /\ mainPc' = "start"
  /\ \E m \in Makedirs(fs) :
       /\ fs' = m.fs
       /\ project_dir' = create_project_directory(m)
  /\ UNCHANGED << system, session, is_recording, global_pids, osVars,
                  stopCtx, stopIdx, stopSet, handled, trace, stopErrors,
                  threadVars, cleanupKills, confirmed, stdin, fnVars,
                  pid_to_widget_map, reader, lastStatus >>

\* _get_screen_input / _get_webcam_input / _get_audio_input: the if/elif
\* chain returns a stream on the three known systems and raises otherwise
ResolveOk(sys, task) == sys \in SupportedSystems

\* mutant: the exception of one task leaves the loops of start()
AfterTaskError_Abort(ts) == << >>

\* the tasks Recorder.start() goes on with after the first of ts raised:
\* the try/except is inside each for loop
AfterTaskError(ts) == Tail(ts)

\* what _launch_process leaves in self.processes: the Popen object (its pid
\* and the output file of its arguments) and the task label
Launched(recs, pid, task) ==
  Append(recs, [pid |-> pid, task_name |-> TaskName(task),
                filename |-> OutputPath(task)])

\* the word for the task kind in the resolvers' OSError messages
CaptureWord(kind) ==
  CASE kind = "Screen" -> "screen capture"
    [] kind = "Webcam" -> "webcam capture"
    [] kind = "Audio" -> "audio capture"

\* mutant: the audio and webcam resolvers raise the screen resolver's message
ResolveError_Screen(sys, task) ==
  << "Unsupported OS for", "screen capture", sys >>

\* raise OSError(f"Unsupported OS for {kind} capture: {self.system}")
ResolveError(sys, task) ==
  << "Unsupported OS for", CaptureWord(task.kind), sys >>

\* what ffmpeg.compile or subprocess.Popen raised
SpawnError == << "spawn failed" >>

\* logging.error(f"Failed to start recording for {label}: {e}")
Logged(log, task, e) == Append(log, [label |-> TaskName(task), error |-> e])

\* one iteration of the for loops of Recorder.start(), with _launch_process
LaunchTask ==
  /\ mainPc = "start"
  /\ tasks # << >>
  /\ LET task == Head(tasks) IN
       IF ~ResolveOk(system, task)
       THEN /\ outcome' = Append(outcome, "resolve_failed")
            /\ launchErrors' =
                 Logged(launchErrors, task, ResolveError(system, task))
            /\ tasks' = AfterTaskError(tasks)
            /\ UNCHANGED << processes, procState >>
       ELSE \/ \* ffmpeg.compile or subprocess.Popen raises
               /\ outcome' = Append(outcome, "spawn_failed")
               /\ launchErrors' = Logged(launchErrors, task, SpawnError)
               /\ tasks' = AfterTaskError(tasks)
               /\ UNCHANGED << processes, procState >>
            \/ \* subprocess.Popen returns; the record is appended
               /\ NextPid \in Pids
               /\ outcome' = Append(outcome, "ok")
               /\ UNCHANGED launchErrors
               /\ procState' = [procState EXCEPT ![NextPid] = "alive"]
               /\ processes' = Launched(processes, NextPid, task)
               /\ tasks' = Tail(tasks)
  /\ UNCHANGED << system, mainPc, session, recorder, nTasks, is_recording,
                  global_pids, startResult, exitCode, stopVars, threadVars,
                  cleanupKills, confirmed, stdin, fnVars, restVars >>

\* start_log_readers: two readers per process
RECURSIVE Readers(_)
Readers(recs) ==
  IF recs = << >> THEN << >>
  ELSE << << Head(recs).pid, "stdout", TRUE >>,
          << Head(recs).pid, "stderr", TRUE >> >> \o Readers(Tail(recs))

\* ProcessMonitorThread(active_processes) and start()
StartedMonitor(active_processes) ==
  [pc |-> "loop", idx |-> 0, running |-> TRUE, list |-> active_processes]

\* ResourceMonitorThread(project_dir) and start()
StartedGuard == [GuardOff EXCEPT !.pc = "loop", !.running = TRUE]

\* mutant: toggle_recording does not test the list start() left
StartSucceeded_Always(active_processes) == TRUE

\* if active_processes: whether toggle_recording goes on to start the monitors
StartSucceeded(active_processes) == active_processes # << >>

\* start_log_readers: a LogReaderThread is started on either stream of
\* every process
StartedReaders(rd, recs) ==
  [p \in Pids |->
     IF p \in RecordPids(recs)
     THEN [st \in Streams |-> [pc |-> "test", running |-> TRUE]]
     ELSE rd[p]]

\* mutant: the monitors are started while start() is still in its loops
StartReturned_Early(ts) == TRUE

\* self.recorder.start() has returned: its three for loops are exhausted
StartReturned(ts) == ts = << >>

\* toggle_recording after self.recorder.start() returned
FinishStart ==
  /\ mainPc = "start"
  /\ StartReturned(tasks)
  /\ outcome' = << >>
  /\ launchErrors' = << >>
  /\ nTasks' = 0
  /\ IF StartSucceeded(processes)
     THEN /\ global_pids' = global_pids \cup RecordPids(processes)
          /\ log_reader_threads' = log_reader_threads \o Readers(processes)
          /\ session' = session + 1
          /\ mon' = [mon EXCEPT ![session + 1] = StartedMonitor(processes)]
          /\ guard' = [guard EXCEPT ![session + 1] = StartedGuard]
          /\ process_monitor_thread' = session + 1
          /\ is_recording' = TRUE
          /\ startResult' = "ok"
          /\ pid_to_widget_map' = build_pid_map(processes)
          /\ reader' = StartedReaders(reader, processes)
          /\ UNCHANGED indicator
     ELSE /\ startResult' = "failed"
          /\ indicator' = ResetIndicators
          /\ UNCHANGED << global_pids, log_reader_threads, session, mon,
                          guard, process_monitor_thread, is_recording,
                          pid_to_widget_map, reader >>
  /\ mainPc' = "idle"
  /\ UNCHANGED << system, recorder, tasks, processes, osVars, stopVars, low,
                  queue, reportedTerminal, cleanupKills, confirmed, stdin,
                  fnVars, dirVars, lastStatus >>

(* --------------------------- encoder processes -------------------------- *)
\* an encoder exits by itself (end of input, a crash)
ProcessExit(p) ==
  /\ Alive(p)
  /\ \E c \in ExitCodes :
       /\ procState' = [procState EXCEPT ![p] = "exited"]
       /\ exitCode' = [exitCode EXCEPT ![p] = c]
  /\ UNCHANGED << system, mainPc, session, recorder, startVars, processes,
                  is_recording, global_pids, stopVars, threadVars,
                  cleanupKills, confirmed, stdin, fnVars, restVars >>

(* ------------------------------ Recorder.stop --------------------------- *)
\* entry of Recorder.stop(), called by toggle_recording, closeEvent or
\* handle_exception
StopBegin(ctx) ==
  /\ stopCtx' = ctx
  /\ stopIdx' = 1
  /\ stopSet' = RecordPids(processes)
  /\ handled' = {}
  /\ stopErrors' = {}
  /\ trace' = << >>
  /\ mainPc' = "stop"
  /\ UNCHANGED << system, session, recorder, startVars, processes,
                  is_recording, global_pids, osVars, stopCalls, threadVars,
                  cleanupKills, confirmed, stdin, fnVars, restVars >>

\* How one encoder process answers the calls stop() makes on it:
\*   term: p.terminate() delivers the signal, or raises NoSuchProcess (the
\*         process vanished after the is_running() check), or raises another
\*         error (psutil.AccessDenied, ...)
\*   wait: the process exits within the 3 s of p.wait(timeout=3), or not
\*   kill: p.kill() delivers the signal, or raises as above
\*   code: the exit code when the process exits by itself
\*   zombie: an exited child that was not waited for is still in the process
\*         table (POSIX) or not (Windows)
Responses ==
  [term : {"ok", "NoSuchProcess", "error"}, wait : {"exited", "timeout"},
   kill : {"ok", "NoSuchProcess", "error"}, code : ExitCodes,
   zombie : BOOLEAN]

\* The process of pid p has exited and is a zombie: nobody has waited for
\* it.  process.poll() of the health monitor is such a wait, and it returned
\* a code for every pid a terminal status was emitted for.
IsZombie(p, r) ==
  procState[p] = "exited" /\ p \notin reportedTerminal /\ r.zombie

\* p.is_running() after psutil.Process(process.pid): true for a live process
\* and for a zombie; a pid that is gone raises NoSuchProcess instead
is_running(p, r) == Alive(p) \/ IsZombie(p, r)

\* what a zombie answers: terminate() delivers its signal to no effect and
\* wait() returns the exit status at once
Answers(p, r) ==
  IF Alive(p) THEN r ELSE [r EXCEPT !.term = "ok", !.wait = "exited"]

\* the TimeoutExpired handler: p.kill(), then p.wait()
ForcefulKill(r) ==
  IF r.kill = "ok" THEN << "kill", "wait:confirmed" >>
  ELSE << "kill:" \o r.kill >>

\* mutant: the forceful kill follows the wait whatever its result
BoundedWait_AlwaysKill(r) == << "wait:" \o r.wait >> \o ForcefulKill(r)

\* p.wait(timeout=3) and what follows it
BoundedWait(r) ==
  IF r.wait = "exited" THEN << "wait:exited" >>
  ELSE << "wait:timeout" >> \o ForcefulKill(r)

\* p.terminate() and what follows it
GracefulStop(r) ==
  IF r.term = "ok" THEN << "terminate" >> \o BoundedWait(r)
  ELSE << "terminate:" \o r.term >>

\* the body of the for loop of stop() for one record: the calls made on the
\* process, in order, each with its result
StopOne(running, r) == IF running THEN GracefulStop(r) ELSE << >>

Has(t, what) == \E i \in 1..Len(t) : t[i] = what

\* an exception reached one of the except clauses of the loop body
Raised(t) ==
  \/ Has(t, "terminate:NoSuchProcess") \/ Has(t, "kill:NoSuchProcess")
  \/ Has(t, "terminate:error") \/ Has(t, "kill:error")

\* the exception was logged by the except Exception clause (logging.error)
LoggedError(t) == Has(t, "terminate:error") \/ Has(t, "kill:error")

\* the process went away by itself while stop() was handling it
ExitedByItself(t) ==
  \/ Has(t, "terminate:NoSuchProcess") \/ Has(t, "kill:NoSuchProcess")
  \/ Has(t, "wait:exited")

\* mutant: the record that raised is tried again
AfterRecordError_Retry(i) == i

\* mutant: the try/except is around the for loop, an exception ends it
AfterRecordError_Abort(i) == Len(processes) + 1

\* the record stop() handles after an exception for record i was caught:
\* both except clauses are inside the for loop
AfterRecordError(i) == i + 1

\* r stands for all the answers that differ from it only in the results of
\* calls stop() does not get to make on this record: a zombie is an exited
\* process, nothing but is_running() is asked of a process that has exited,
\* wait() is asked only after terminate() succeeded, kill() only after wait()
\* timed out, and the exit code is the process's own only if it left without
\* being killed
Asked(alive, r) ==
  IF ~alive
  THEN r.term = "ok" /\ r.wait = "exited" /\ r.kill = "ok" /\ r.code = 0
  ELSE /\ ~r.zombie
       /\ r.term # "ok" => r.wait = "exited"
       /\ (r.term # "ok" \/ r.wait = "exited") => r.kill = "ok"
       /\ \/ r.term = "NoSuchProcess"
          \/ r.term = "ok" /\ r.wait = "exited"
          \/ r.term = "ok" /\ r.wait = "timeout" /\ r.kill = "NoSuchProcess"
          \/ r.code = 0

\* one iteration of the for loop of Recorder.stop()
StopRecord ==
  /\ mainPc = "stop"
  /\ stopIdx <= Len(processes)
  /\ \E r \in { q \in Responses : Asked(Alive(processes[stopIdx].pid), q) } :
       LET p == processes[stopIdx].pid
           t == StopOne(is_running(p, r), Answers(p, r)) IN
         /\ trace' = t
         /\ handled' = handled \cup {p}
         /\ stopErrors' = IF LoggedError(t) THEN stopErrors \cup {p}
                          ELSE stopErrors
         /\ stopIdx' = IF Raised(t) THEN AfterRecordError(stopIdx)
                       ELSE stopIdx + 1
         /\ IF Has(t, "kill")
            THEN /\ procState' = [procState EXCEPT ![p] = "exited"]
                 /\ exitCode' = [exitCode EXCEPT ![p] = -9]
            ELSE IF Alive(p) /\ ExitedByItself(t)
            THEN /\ procState' = [procState EXCEPT ![p] = "exited"]
                 /\ exitCode' = [exitCode EXCEPT ![p] = r.code]
            ELSE UNCHANGED << procState, exitCode >>
         /\ confirmed' = IF procState'[p] = "exited"
                         THEN confirmed \cup {p}
                         ELSE confirmed
  /\ UNCHANGED << system, mainPc, session, recorder, startVars, processes,
                  is_recording, global_pids, stopCtx, stopSet, stopCalls,
                  threadVars, cleanupKills, stdin, fnVars, restVars >>

\* mutant: stop() returns without clearing the collection
ClearedRecords_Keep(recs) == recs

\* self.processes = [] after the loop
ClearedRecords(recs) == << >>

\* mutant: stop() empties the list in place (self.processes.clear())
HeldList_ClearedInPlace(list) == << >>

\* the list object the health monitor was constructed with, after stop():
\* self.processes = [] binds the attribute to a new list and leaves the old
\* object, which the monitor iterates, as it is
HeldList(list) == list

\* end of the for loop of Recorder.stop(), and its return; while the session
\* is in progress the Recorder's list is the one its health monitor holds
StopReturn ==
  /\ mainPc = "stop"
  /\ stopIdx > Len(processes)
  /\ processes' = ClearedRecords(processes)
  /\ mon' = IF is_recording
            THEN [mon EXCEPT ![process_monitor_thread].list = HeldList(@)]
            ELSE mon
  /\ stopCalls' = stopCalls + 1
  /\ mainPc' = "afterStop"
  /\ UNCHANGED << system, session, recorder, startVars, is_recording,
                  global_pids, osVars, stopCtx, stopIdx, stopSet, handled,
                  trace, stopErrors, process_monitor_thread, guard, low,
                  log_reader_threads, queue, reportedTerminal,
                  cleanupKills, confirmed, stdin, fnVars, restVars >>

\* the bookkeeping of one stop() call ends when its caller goes on
StopForgotten ==
  /\ stopSet' = {}
  /\ handled' = {}
  /\ stopErrors' = {}
  /\ trace' = << >>

(* ------------------- MainWindow.toggle_recording: stop ------------------ *)
\* the if self.is_recording branch: self.recorder.stop() is entered
ToggleStop ==
  /\ mainPc = "idle"
  /\ is_recording
  /\ StopBegin("toggle")

\* thread.stop() for every thread of the list
StopReaders(threads) ==
  [i \in 1..Len(threads) |-> << threads[i][1], threads[i][2], FALSE >>]

\* ProcessMonitorThread.stop() / ResourceMonitorThread.stop() on the thread
\* of session s, if there is one
Halted(m, s) == IF s = 0 THEN m ELSE [m EXCEPT ![s].running = FALSE]

\* thread.stop() for every LogReaderThread of the list: the flag of the
\* thread object is cleared
StoppedReaders(rd, threads) ==
  [p \in Pids |-> [st \in Streams |->
     IF \E i \in 1..Len(threads) : threads[i][1] = p /\ threads[i][2] = st
     THEN [rd[p][st] EXCEPT !.running = FALSE]
     ELSE rd[p][st]]]

\* the rest of the branch after self.recorder.stop() returned
AfterStopToggle ==
  /\ mainPc = "afterStop"
  /\ stopCtx = "toggle"
  /\ reader' = StoppedReaders(reader, log_reader_threads)
  /\ log_reader_threads' = << >>
  /\ indicator' = ResetIndicators
  /\ guard' = Halted(guard, process_monitor_thread)
  /\ mon' = Halted(mon, process_monitor_thread)
  /\ is_recording' = FALSE
  /\ global_pids' = {}
  /\ mainPc' = "idle"
  /\ StopForgotten
  /\ UNCHANGED << system, session, recorder, startVars, processes, osVars,
                  stopCtx, stopIdx, stopCalls, process_monitor_thread, low,
                  queue, reportedTerminal, cleanupKills, confirmed, stdin,
                  fnVars, dirVars, pid_to_widget_map, lastStatus >>

(* ---------------------- MainWindow.on_process_status_update ------------- *)
IsTerminal(status) == status \in {"exited_ok", "exited_error"}

\* mutant: a terminal status empties the registry
Discarded_All(pids, pid, status) ==
  IF IsTerminal(status) THEN {} ELSE pids

\* the registry after on_process_status_update(pid, status)
Discarded(pids, pid, status) ==
  IF IsTerminal(status) THEN pids \ {pid} ELSE pids

\* the status label after on_process_status_update(pid, status): the label
\* of the pid's widget shows the status, if pid_to_widget_map has the pid
Shown(ind, map, pid, status) ==
  IF map[pid] # 0 THEN [ind EXCEPT ![map[pid]] = status] ELSE ind

\* the GUI event loop delivers the oldest queued process_status_update
DeliverStatus ==
  /\ mainPc = "idle"
  /\ queue # << >>
  /\ indicator' = Shown(indicator, pid_to_widget_map,
                        Head(queue).pid, Head(queue).status)
  /\ global_pids' = Discarded(global_pids, Head(queue).pid, Head(queue).status)
  /\ confirmed' = IF IsTerminal(Head(queue).status)
                  THEN confirmed \cup {Head(queue).pid}
                  ELSE confirmed
  /\ queue' = Tail(queue)
  /\ UNCHANGED << system, mainPc, session, recorder, startVars, processes,
                  is_recording, osVars, stopVars, process_monitor_thread,
                  mon, guard, low, log_reader_threads, reportedTerminal,
                  cleanupKills, stdin, fnVars, dirVars, pid_to_widget_map,
                  reader, lastStatus >>

(* --------------------------- MainWindow.closeEvent ---------------------- *)
CloseEvent ==
  /\ mainPc = "idle"
  /\ IF is_recording
     THEN StopBegin("close")
     ELSE /\ mainPc' = "closing"
          /\ UNCHANGED << system, session, recorder, startVars, processes,
                          is_recording, global_pids, osVars, stopVars,
                          threadVars, cleanupKills, confirmed, stdin,
                          fnVars, restVars >>

\* closeEvent after self.recorder.stop() returned
AfterStopClose ==
  /\ mainPc = "afterStop"
  /\ stopCtx = "close"
  /\ mainPc' = "closing"
  /\ StopForgotten
  /\ UNCHANGED << system, session, recorder, startVars, processes,
                  is_recording, global_pids, osVars, stopCtx, stopIdx,
                  stopCalls, threadVars,
                  cleanupKills, confirmed, stdin, fnVars, restVars >>

\* self.process_monitor_thread.stop()
CloseStopMonitor ==
  /\ mainPc = "closing"
  /\ mon' = Halted(mon, process_monitor_thread)
  /\ mainPc' = "closewait"
  /\ UNCHANGED << system, session, recorder, startVars, processes,
                  is_recording, global_pids, osVars, stopVars,
                  process_monitor_thread, guard, low, log_reader_threads,
                  queue, reportedTerminal,
                  cleanupKills, confirmed, stdin, fnVars, restVars >>

\* self.process_monitor_thread.wait(), the readers' stop() and event.accept()
CloseAccept ==
  /\ mainPc = "closewait"
  /\ process_monitor_thread # 0 => mon[process_monitor_thread].pc = "done"
  /\ log_reader_threads' = StopReaders(log_reader_threads)
  /\ reader' = StoppedReaders(reader, log_reader_threads)
  /\ mainPc' = "exiting"
  /\ UNCHANGED << system, session, recorder, startVars, processes,
                  is_recording, global_pids, osVars, stopVars,
                  process_monitor_thread, mon, guard, low, queue,
                  reportedTerminal, cleanupKills, confirmed, stdin, fnVars,
                  dirVars, uiVars, lastStatus >>

(* ------------------------------- main.py -------------------------------- *)
\* handle_exception: the global hook for an exception that escaped a handler
HandleException ==
  /\ mainPc = "idle"
  /\ IF recorder
     THEN StopBegin("hook")
     ELSE /\ mainPc' = "exiting"
          /\ UNCHANGED << system, session, recorder, startVars, processes,
                          is_recording, global_pids, osVars, stopVars,
                          threadVars, cleanupKills, confirmed, stdin,
                          fnVars, restVars >>

\* handle_exception after window_instance.recorder.stop(): sys.exit(1)
AfterStopHook ==
  /\ mainPc = "afterStop"
  /\ stopCtx = "hook"
  /\ mainPc' = "exiting"
  /\ StopForgotten
  /\ UNCHANGED << system, session, recorder, startVars, processes,
                  is_recording, global_pids, osVars, stopCtx, stopIdx,
                  stopCalls, threadVars,
                  cleanupKills, confirmed, stdin, fnVars, restVars >>

\* cleanup_processes, run by atexit: p.kill() for every registered pid that
\* still exists; a kill that raises is logged and skipped
CleanupProcesses ==
  /\ mainPc = "exiting"
  /\ \E denied \in SUBSET { p \in global_pids : Alive(p) } :
       LET killed == { p \in global_pids : Alive(p) } \ denied IN
         /\ cleanupKills' = killed
         /\ procState' = [p \in Pids |->
                            IF p \in killed THEN "exited" ELSE procState[p]]
         /\ exitCode' = [p \in Pids |->
                           IF p \in killed THEN -9 ELSE exitCode[p]]
  /\ mainPc' = "exited"
  /\ UNCHANGED << system, session, recorder, startVars, processes,
                  is_recording, global_pids, stopVars, threadVars,
                  confirmed, stdin, fnVars, restVars >>

(* ------------------------- ProcessMonitorThread ------------------------- *)
\* mutant: the test of the return code is inverted
StatusOf_Inverted(state, code) ==
  IF state = "alive" THEN "running"
  ELSE IF code # 0 THEN "exited_ok" ELSE "exited_error"

\* mutant: the test of poll() is negated (is not None)
StatusOf_PollNegated(state, code) ==
  IF state # "alive" THEN "running" ELSE "exited_error"

\* the status ProcessMonitorThread.run() derives from poll() / returncode
StatusOf(state, code) ==
  IF state = "alive" THEN "running"
  ELSE IF code = 0 THEN "exited_ok" ELSE "exited_error"

AppLive == mainPc # "exited"

\* mutant: the loop does not test its flag (while True)
KeepsRunning_Always(t) == TRUE

\* while self.running: the test at the head of every iteration of the
\* health monitor and of the resource guard
KeepsRunning(t) == t.running

\* while self.running: entering one more iteration, or leaving run()
MonLoop(s) ==
  /\ AppLive
  /\ mon[s].pc = "loop"
  /\ IF KeepsRunning(mon[s])
     THEN /\ Len(queue) + Len(mon[s].list) <= MaxQueue
          /\ mon' = [mon EXCEPT ![s].pc = "scan", ![s].idx = 1]
     ELSE mon' = [mon EXCEPT ![s].pc = "done", ![s].idx = 0]
  /\ UNCHANGED << system, mainPc, session, recorder, startVars, processes,
                  is_recording, global_pids, osVars, stopVars,
                  process_monitor_thread, guard, low, log_reader_threads,
                  queue, reportedTerminal,
                  cleanupKills, confirmed, stdin, fnVars, restVars >>

\* one pass of the for loop body: poll one process and emit its status;
\* after the last one the thread sleeps and returns to the loop test
MonPoll(s) ==
  /\ AppLive
  /\ mon[s].pc = "scan"
  /\ LET p == mon[s].list[mon[s].idx].pid
         status == StatusOf(procState[p], exitCode[p]) IN
       /\ queue' = Append(queue, [pid |-> p, status |-> status])
       /\ reportedTerminal' = IF IsTerminal(status)
                             THEN reportedTerminal \cup {p}
                             ELSE reportedTerminal
       /\ lastStatus' = [lastStatus EXCEPT ![p] = status]
  /\ mon' = IF mon[s].idx < Len(mon[s].list)
            THEN [mon EXCEPT ![s].idx = @ + 1]
            ELSE [mon EXCEPT ![s].pc = "loop", ![s].idx = 0]
  /\ UNCHANGED << system, mainPc, session, recorder, startVars, processes,
                  is_recording, global_pids, osVars, stopVars,
                  process_monitor_thread, guard, low, log_reader_threads,
                  cleanupKills, confirmed, stdin, fnVars, dirVars, uiVars,
                  reader >>

(* ------------------------- ResourceMonitorThread ------------------------ *)
\* mutant: the disk warning is emitted but its flag is never set
DiskCheck_NoFlag(g, isLow) ==
  IF ~g.disk_warning_sent /\ isLow
  THEN [g EXCEPT !.warned["disk"] = @ + 1]
  ELSE g

\* the disk check of one iteration; isLow: free space is below the threshold
DiskCheck(g, isLow) ==
  IF ~g.disk_warning_sent /\ isLow
  THEN [g EXCEPT !.warned["disk"] = @ + 1, !.disk_warning_sent = TRUE]
  ELSE g

\* the RAM check of one iteration; isLow: available RAM is below the threshold
RamCheck(g, isLow) ==
  IF ~g.ram_warning_sent /\ isLow
  THEN [g EXCEPT !.warned["ram"] = @ + 1, !.ram_warning_sent = TRUE]
  ELSE g

Polled(g) == [g EXCEPT !.polledLow = [k \in Kinds |-> @[k] \/ low[k]]]

\* one iteration of while self.running, or leaving run()
GuardPoll(s) ==
  /\ AppLive
  /\ guard[s].pc = "loop"
  /\ guard' = [guard EXCEPT ![s] =
       IF KeepsRunning(guard[s])
       THEN RamCheck(DiskCheck(Polled(guard[s]), low["disk"]), low["ram"])
       ELSE [guard[s] EXCEPT !.pc = "done"]]
  /\ UNCHANGED << system, mainPc, session, recorder, startVars, processes,
                  is_recording, global_pids, osVars, stopVars,
                  process_monitor_thread, mon, low, log_reader_threads,
                  queue, reportedTerminal,
                  cleanupKills, confirmed, stdin, fnVars, restVars >>

\* ProcessMonitorThread.stop(), called while the session is in progress
MonitorStop(s) ==
  /\ AppLive
  /\ mon[s].pc # "off"
  /\ mon[s].running
  /\ mon' = Halted(mon, s)
  /\ UNCHANGED << system, mainPc, session, recorder, startVars, processes,
                  is_recording, global_pids, osVars, stopVars,
                  process_monitor_thread, guard, low, log_reader_threads,
                  queue, reportedTerminal,
                  cleanupKills, confirmed, stdin, fnVars, restVars >>

\* ResourceMonitorThread.stop(), called while the session is in progress
GuardStop(s) ==
  /\ AppLive
  /\ guard[s].pc # "off"
  /\ guard[s].running
  /\ guard' = Halted(guard, s)
  /\ UNCHANGED << system, mainPc, session, recorder, startVars, processes,
                  is_recording, global_pids, osVars, stopVars,
                  process_monitor_thread, mon, low, log_reader_threads,
                  queue, reportedTerminal,
                  cleanupKills, confirmed, stdin, fnVars, restVars >>

\* free disk space or available RAM crosses its threshold
ResourceChange(k) ==
  /\ low' = [low EXCEPT ![k] = ~@]
  /\ UNCHANGED << system, mainPc, session, recorder, startVars, processes,
                  is_recording, global_pids, osVars, stopVars,
                  process_monitor_thread, mon, guard, log_reader_threads,
                  queue, reportedTerminal,
                  cleanupKills, confirmed, stdin, fnVars, restVars >>

(* ----------------------------- LogReaderThread ------------------------- *)
\* while self.running and not text_stream.closed: the thread enters
\* readline(), or leaves run()
ReaderTest(p, st) ==
  /\ AppLive
  /\ reader[p][st].pc = "test"
  /\ reader' = [reader EXCEPT ![p][st].pc =
                  IF reader[p][st].running THEN "read" ELSE "done"]
  /\ UNCHANGED << system, mainPc, session, recorder, startVars, processes,
                  is_recording, global_pids, osVars, stopVars, threadVars,
                  cleanupKills, confirmed, stdin, fnVars, dirVars, uiVars,
                  lastStatus >>

\* readline() returns a line the encoder wrote: it is emitted and the thread
\* is back at the loop test
ReaderLine(p, st) ==
  /\ AppLive
  /\ reader[p][st].pc = "read"
  /\ Alive(p)
  /\ reader' = [reader EXCEPT ![p][st].pc = "test"]
  /\ UNCHANGED << system, mainPc, session, recorder, startVars, processes,
                  is_recording, global_pids, osVars, stopVars, threadVars,
                  cleanupKills, confirmed, stdin, fnVars, dirVars, uiVars,
                  lastStatus >>

\* readline() returns '' at the end of the stream, which the exit of the
\* encoder brings: break
ReaderEof(p, st) ==
  /\ AppLive
  /\ reader[p][st].pc = "read"
  /\ ~Alive(p)
  /\ reader' = [reader EXCEPT ![p][st].pc = "done"]
  /\ UNCHANGED << system, mainPc, session, recorder, startVars, processes,
                  is_recording, global_pids, osVars, stopVars, threadVars,
                  cleanupKills, confirmed, stdin, fnVars, dirVars, uiVars,
                  lastStatus >>

\* LogReaderThread.stop(), called while the session is in progress
ReaderStop(p, st) ==
  /\ AppLive
  /\ reader[p][st].pc # "off"
  /\ reader[p][st].running
  /\ reader' = [reader EXCEPT ![p][st].running = FALSE]
  /\ UNCHANGED << system, mainPc, session, recorder, startVars, processes,
                  is_recording, global_pids, osVars, stopVars, threadVars,
                  cleanupKills, confirmed, stdin, fnVars, dirVars, uiVars,
                  lastStatus >>

(* ----------------------------- specifications --------------------------- *)
\* the GUI thread and the encoder processes
MainNext ==
  \/ ToggleStart
  \/ LaunchTask
  \/ FinishStart
  \/ ToggleStop
  \/ StopRecord
  \/ StopReturn
  \/ AfterStopToggle
  \/ CloseEvent
  \/ AfterStopClose
  \/ CloseStopMonitor
  \/ CloseAccept
  \/ HandleException
  \/ AfterStopHook
  \/ CleanupProcesses
  \/ \E p \in Pids : ProcessExit(p)

\* the health monitor threads and the delivery of their signals
MonitorNext ==
  \/ DeliverStatus
  \/ \E s \in Sessions : MonLoop(s)
  \/ \E s \in Sessions : MonPoll(s)

\* the resource guards and the resources they watch
GuardNext ==
  \/ \E k \in Kinds : ResourceChange(k)
  \/ \E s \in Sessions : GuardPoll(s)

\* the log readers
ReadersNext ==
  \/ \E p \in Pids, st \in Streams : ReaderTest(p, st)
  \/ \E p \in Pids, st \in Streams : ReaderLine(p, st)
  \/ \E p \in Pids, st \in Streams : ReaderEof(p, st)

Next == MainNext \/ MonitorNext \/ GuardNext \/ ReadersNext

\* the application with its background threads
Spec == Init /\ [][Next]_vars

\* the GUI thread and the encoder processes alone: Recorder.start(),
\* Recorder.stop(), the registry and the exit paths
SpecMain == Init /\ [][MainNext]_vars

\* the GUI thread goes on with Recorder.stop() once it has entered it: no
\* call in the loop body blocks for good, given that a kill takes effect
SpecMainLive ==
  SpecMain /\ WF_vars(StopRecord) /\ WF_vars(StopReturn)

(* ----------------------- sanitize_filename applied --------------------- *)
\* one call of sanitize_filename
Sanitize ==
  /\ \E n \in Names :
       /\ name' = n
       /\ sanitized' = sanitize_filename(n)
  /\ UNCHANGED << system, mainPc, session, recorder, startVars, processes,
                  is_recording, global_pids, osVars, stopVars, threadVars,
                  cleanupKills, confirmed, stdin, rect, area_geo,
                  screenInput, restVars >>

\* sanitize_filename applied to the names of the bounded alphabet
SpecSanitize == Init /\ [][Sanitize]_vars

(* ----------------------------- area selection -------------------------- *)
\* the rectangles SelectionOverlay.mouseReleaseEvent emits:
\* QRect(begin, end).normalized(), whose width and height are not negative
Rects == [x : 0..1, y : 0..1, w : 0..MaxSide, h : 0..MaxSide]

\* mutant: only the width is made even
adjust_rect_for_ffmpeg_WidthOnly(r) ==
  [x |-> r.x, y |-> r.y, w |-> r.w - (r.w % 2), h |-> r.h]

\* w -= (w % 2); h -= (h % 2); return QRect(x, y, w, h)
adjust_rect_for_ffmpeg(r) ==
  [x |-> r.x, y |-> r.y, w |-> r.w - (r.w % 2), h |-> r.h - (r.h % 2)]

\* MainWindow.on_area_selected(rect): the adjusted rectangle is stored as the
\* tuple (x, y, width, height)
on_area_selected ==
  /\ \E r \in Rects :
       LET adjusted_rect == adjust_rect_for_ffmpeg(r) IN
         /\ rect' = r
         /\ area_geo' = << adjusted_rect.x, adjusted_rect.y,
                           adjusted_rect.w, adjusted_rect.h >>
  /\ UNCHANGED << system, mainPc, session, recorder, startVars, processes,
                  is_recording, global_pids, osVars, stopVars, threadVars,
                  cleanupKills, confirmed, stdin, name, sanitized,
                  screenInput, restVars >>

\* an Area-mode task reaches the resolver: gather_recording_settings copies
\* area_geo into the task unless it is None, and _get_screen_input unpacks
\* x, y, w, h from it for the input offsets and the size f'{w}x{h}'
ResolveArea ==
  /\ area_geo # << >>
  /\ screenInput' = area_geo
  /\ UNCHANGED << system, mainPc, session, recorder, startVars, processes,
                  is_recording, global_pids, osVars, stopVars, threadVars,
                  cleanupKills, confirmed, stdin, name, sanitized, rect,
                  area_geo, restVars >>

AreaNext == on_area_selected \/ ResolveArea

\* the selection of areas and the Area-mode tasks made from them
SpecArea == Init /\ [][AreaNext]_vars

\* toggle_recording has just started the first session: every selected task
\* was launched
RECURSIVE Records(_, _)
Records(ts, pid) ==
  IF ts = << >> THEN << >>
  ELSE Launched(<< >>, pid, Head(ts)) \o Records(Tail(ts), pid + 1)

InitSession ==
  /\ system \in Systems \cap SupportedSystems
  /\ mainPc = "idle"
  /\ session = 1
  /\ recorder = TRUE
  /\ nTasks = 0
  /\ tasks = << >>
  /\ outcome = << >>
  /\ \E ts \in TaskSets :
       /\ Len(ts) <= MaxLaunches
       /\ processes = Records(ts, 1)
       /\ indicator = PendingFor(ts)
  /\ is_recording = TRUE
  /\ global_pids = RecordPids(processes)
  /\ startResult = "ok"
  /\ procState = [p \in Pids |->
                    IF p \in RecordPids(processes) THEN "alive" ELSE "unborn"]
  /\ exitCode = [p \in Pids |-> 0]
  /\ stopCtx = "none"
  /\ stopIdx = 0
  /\ stopSet = {}
  /\ handled = {}
  /\ trace = << >>
  /\ stopErrors = {}
  /\ stopCalls = 0
  /\ process_monitor_thread = 1
  /\ mon = [s \in Sessions |->
              IF s = 1 THEN StartedMonitor(processes) ELSE MonOff]
  /\ guard = [s \in Sessions |-> IF s = 1 THEN StartedGuard ELSE GuardOff]
  /\ low = [k \in Kinds |-> FALSE]
  /\ log_reader_threads = Readers(processes)
  /\ queue = << >>
  /\ reportedTerminal = {}
  /\ cleanupKills = {}
  /\ launchErrors = << >>
  /\ confirmed = {}
  /\ stdin = [p \in Pids |-> << >>]
  /\ InitFn
  /\ fs = [base |-> "writable", project |-> TRUE]
  /\ project_dir = "project"
  /\ pid_to_widget_map = build_pid_map(processes)
  /\ reader = StartedReaders([p \in Pids |-> [st \in Streams |-> ReaderOff]],
                             processes)
  /\ lastStatus = [p \in Pids |-> "none"]

\* one session in progress: its health monitor, its processes and the
\* delivery of the monitor's signals, until the monitor is told to stop
SessionMonitorNext ==
  \/ \E p \in Pids : ProcessExit(p)
  \/ \E s \in Sessions : MonLoop(s)
  \/ \E s \in Sessions : MonPoll(s)
  \/ \E s \in Sessions : MonitorStop(s)
  \/ DeliverStatus

SpecMonitor == InitSession /\ [][SessionMonitorNext]_vars

\* one session in progress: its resource guard and the resources it watches,
\* until the guard is told to stop
SessionGuardNext ==
  \/ \E k \in Kinds : ResourceChange(k)
  \/ \E s \in Sessions : GuardPoll(s)
  \/ \E s \in Sessions : GuardStop(s)

SpecGuard == InitSession /\ [][SessionGuardNext]_vars


\* one session in progress: its log readers and its processes, until a
\* reader is told to stop
SessionReadersNext ==
  \/ \E p \in Pids : ProcessExit(p)
  \/ \E p \in Pids, st \in Streams : ReaderTest(p, st)
  \/ \E p \in Pids, st \in Streams : ReaderLine(p, st)
  \/ \E p \in Pids, st \in Streams : ReaderEof(p, st)
  \/ \E p \in Pids, st \in Streams : ReaderStop(p, st)

\* a reader thread is scheduled again and again, and a readline() that can
\* return the end of the stream returns; an encoder need not write a line
SpecReaders ==
  /\ InitSession
  /\ [][SessionReadersNext]_vars
  /\ \A p \in Pids, st \in Streams :
       WF_vars(ReaderTest(p, st)) /\ WF_vars(ReaderEof(p, st))

\* one session in progress: its health monitor and its resource guard, each
\* until it is told to stop
SessionThreadsNext ==
  \/ \E p \in Pids : ProcessExit(p)
  \/ \E s \in Sessions : MonLoop(s)
  \/ \E s \in Sessions : MonPoll(s)
  \/ \E s \in Sessions : MonitorStop(s)
  \/ DeliverStatus
  \/ \E s \in Sessions : GuardPoll(s)
  \/ \E s \in Sessions : GuardStop(s)

\* both threads are scheduled again and again (msleep returns) and the GUI
\* event loop delivers the queued signals
SpecThreads ==
  /\ InitSession
  /\ [][SessionThreadsNext]_vars
  /\ WF_vars(DeliverStatus)
  /\ \A s \in Sessions :
       WF_vars(MonLoop(s)) /\ WF_vars(MonPoll(s)) /\ WF_vars(GuardPoll(s))

\* one session in progress and the ways it is shut down: the Record/Stop
\* button, the closing of the window and the exception hook, with the
\* background threads of the session
ShutdownNext ==
  \/ ToggleStop
  \/ StopRecord
  \/ StopReturn
  \/ AfterStopToggle
  \/ CloseEvent
  \/ AfterStopClose
  \/ CloseStopMonitor
  \/ CloseAccept
  \/ HandleException
  \/ AfterStopHook
  \/ CleanupProcesses
  \/ \E p \in Pids : ProcessExit(p)
  \/ \E s \in Sessions : MonLoop(s)
  \/ \E s \in Sessions : MonPoll(s)
  \/ \E s \in Sessions : GuardPoll(s)
  \/ \E p \in Pids, st \in Streams : ReaderTest(p, st)
  \/ \E p \in Pids, st \in Streams : ReaderLine(p, st)
  \/ \E p \in Pids, st \in Streams : ReaderEof(p, st)
  \/ DeliverStatus

\* a session of one encoder is in progress
InitOneEncoder == InitSession /\ Len(processes) = 1

\* the GUI thread goes on with the handler it is in, the process exits once
\* it got to its exit (atexit), and every thread is scheduled again and again
SpecShutdown ==
  /\ InitOneEncoder
  /\ [][ShutdownNext]_vars
  /\ WF_vars(StopRecord) /\ WF_vars(StopReturn)
  /\ WF_vars(AfterStopToggle) /\ WF_vars(AfterStopClose)
  /\ WF_vars(CloseStopMonitor) /\ WF_vars(CloseAccept)
  /\ WF_vars(AfterStopHook) /\ WF_vars(CleanupProcesses)
  /\ WF_vars(DeliverStatus)
  /\ \A s \in Sessions :
       WF_vars(MonLoop(s)) /\ WF_vars(MonPoll(s)) /\ WF_vars(GuardPoll(s))
  /\ \A p \in Pids, st \in Streams :
       WF_vars(ReaderTest(p, st)) /\ WF_vars(ReaderEof(p, st))

\* toggle_recording starts the first session of the run
FirstStart == session = 0 /\ ToggleStart

\* the first session of a run with its health monitor: the start, the user
\* stop, the processes and the delivery of the monitor's signals
SessionsNext ==
  \/ FirstStart
  \/ LaunchTask
  \/ FinishStart
  \/ ToggleStop
  \/ StopRecord
  \/ StopReturn
  \/ AfterStopToggle
  \/ \E p \in Pids : ProcessExit(p)
  \/ \E s \in Sessions : MonLoop(s)
  \/ \E s \in Sessions : MonPoll(s)
  \/ DeliverStatus

SpecSessions == Init /\ [][SessionsNext]_vars

\* the construction of a Recorder on any file system, and its sessions
DirNext ==
  \/ ToggleStart
  \/ LaunchTask
  \/ FinishStart
  \/ ToggleStop
  \/ StopRecord
  \/ StopReturn
  \/ AfterStopToggle

\* the application is started on any of the file systems
InitDir == InitProgram /\ InitFn /\ InitRest /\ fs \in FileSystems

SpecDir == InitDir /\ [][DirNext]_vars

(* ------------------------------- claims --------------------------------- *)
OkCount(out) == Cardinality({ i \in 1..Len(out) : out[i] = "ok" })

KillCalls == {"kill", "kill:NoSuchProcess", "kill:error"}
WaitResults == {"wait:exited", "wait:timeout"}
TerminateCalls == {"terminate", "terminate:NoSuchProcess", "terminate:error"}

\* C1: when stop() has returned, no process whose pid was in the record
\* collection when stop() was called is still alive.
C1_NoTrackedPidAlive ==
  mainPc = "afterStop" => \A p \in stopSet : ~Alive(p)

\* the calls t made on one process follow the graceful-then-forceful order
GracefulThenForceful(t) ==
  /\ \A i \in 1..Len(t) :
       /\ t[i] \in WaitResults => i = 2 /\ t[1] = "terminate"
       /\ t[i] \in KillCalls =>
            /\ i = 3
            /\ t[2] = "wait:timeout"
            /\ t[1] = "terminate"
       /\ t[i] = "kill" => i < Len(t) /\ t[i + 1] = "wait:confirmed"
       /\ t[i] = "wait:confirmed" => i > 1 /\ t[i - 1] = "kill"
  /\ Has(t, "wait:exited") => \A i \in 1..Len(t) : t[i] \notin KillCalls

\* C2: for a record whose process is alive when stop() reaches it, the
\* graceful request comes first and is followed by the bounded wait; the
\* kill is sent only after that wait timed out, and a delivered kill is
\* followed by a wait that returns with the process gone; a process that
\* exited within the timeout gets no kill.
C2_GracefulThenForceful ==
  [][ (mainPc = "stop" /\ stopIdx' # stopIdx) =>
        LET p == processes[stopIdx].pid IN
          /\ Alive(p) => trace' # << >> /\ trace'[1] \in TerminateCalls
          /\ GracefulThenForceful(trace')
          /\ Has(trace', "kill") => procState'[p] = "exited" ]_vars

\* C2 witness: a process ignored the graceful request and was killed
C2_Witness ==
  /\ mainPc = "stop"
  /\ trace = << "terminate", "wait:timeout", "kill", "wait:confirmed" >>

\* C3: when stop() has returned, every record that was in the collection
\* has been handled and the collection is empty, whatever errors were
\* raised on the way.
C3_ErrorsDoNotAbortStop ==
  mainPc = "afterStop" => handled = stopSet /\ processes = << >>

\* C3 witness: stop() logged an error for one record (its process is still
\* alive) and killed the process of a later record
C3_Witness ==
  /\ mainPc = "afterStop"
  /\ stopErrors # {}
  /\ \E p, q \in stopSet :
       /\ p < q
       /\ Alive(p)
       /\ procState[q] = "exited" /\ exitCode[q] = -9

\* C4: a stop() call that follows a completed stop() call on the same
\* Recorder, or that finds no records, handles no record, makes no call on
\* any process, logs no error, returns with the collection empty and
\* changes no other state of the session.
C4_StopIdempotent ==
  /\ [] ( (mainPc = "afterStop" /\ (stopCalls >= 2 \/ stopSet = {})) =>
            /\ handled = {}
            /\ trace = << >>
            /\ stopErrors = {}
            /\ processes = << >> )
  /\ [][ (mainPc = "stop" /\ (stopCalls >= 1 \/ stopSet = {})) =>
           UNCHANGED << processes, recorder, nTasks, tasks, is_recording,
                        global_pids, session, process_monitor_thread, mon,
                        guard, log_reader_threads >> ]_vars

\* C4 witness: a second stop() call on the same Recorder has returned
C4_Witness == mainPc = "afterStop" /\ stopCalls = 2

\* C5: while start() runs, every task walked so far has one outcome and the
\* collection holds one record per task whose resolution and spawn both
\* succeeded; when start() returns, every task has been attempted.
C5_RecordsMatchLaunches ==
  mainPc = "start" =>
    /\ Len(outcome) + Len(tasks) = nTasks
    /\ Len(processes) = OkCount(outcome)

\* C5 witness: start() has returned after a task that failed to spawn was
\* followed by a task that was launched
C5_Witness ==
  /\ mainPc = "start"
  /\ tasks = << >>
  /\ outcome = << "spawn_failed", "ok" >>

\* C6: a start that launched no task reports failure; the application does
\* not enter the recording state, no monitor, guard or log reader is
\* started and the registry stays as it was.
C6_FailedStartStartsNothing ==
  /\ [] ( startResult = "failed" =>
            /\ ~is_recording
            /\ global_pids = {}
            /\ log_reader_threads = << >>
            /\ \A s \in Sessions : ~mon[s].running /\ ~guard[s].running )
  /\ [][ (mainPc = "start" /\ mainPc' = "idle" /\ processes = << >>) =>
           /\ startResult' = "failed"
           /\ UNCHANGED << is_recording, global_pids, log_reader_threads,
                           mon, guard, session, process_monitor_thread >>
     ]_vars

\* C6 witness: a start has failed and the GUI thread is back in its loop
C6_Witness == startResult = "failed" /\ mainPc = "idle"

\* C7: once a terminal status has been emitted for a pid, no status is
\* emitted for that pid again.
C7_OneTerminalStatus ==
  [][ Len(queue') > Len(queue) =>
        queue'[Len(queue')].pid \notin reportedTerminal ]_vars

\* C8: every status the monitor emits matches the state of the process at
\* the poll: running iff it has not exited, exited_ok iff it exited with
\* code 0, exited_error iff it exited with another code.
C8_StatusMatchesSample ==
  [][ Len(queue') > Len(queue) =>
        LET e == queue'[Len(queue')] IN
          /\ (e.status = "running") = (procState[e.pid] = "alive")
          /\ (e.status = "exited_ok") =
               (procState[e.pid] = "exited" /\ exitCode[e.pid] = 0)
          /\ (e.status = "exited_error") =
               (procState[e.pid] = "exited" /\ exitCode[e.pid] # 0) ]_vars

\* C8 witness: the queue holds a running status and an exited_error status
C8_Witness ==
  \E i, j \in 1..Len(queue) :
    queue[i].status = "running" /\ queue[j].status = "exited_error"

\* C9: a guard has emitted exactly one warning of a kind if one of its polls
\* found that resource low, and none otherwise, each kind by itself.
C9_OneWarningPerKind ==
  \A s \in Sessions : \A k \in Kinds :
    guard[s].warned[k] = IF guard[s].polledLow[k] THEN 1 ELSE 0

\* C9 witness: one guard has emitted its disk warning and its RAM warning
C9_Witness ==
  \E s \in Sessions :
    guard[s].warned["disk"] = 1 /\ guard[s].warned["ram"] = 1

\* C10: while the application runs, the pid of every encoder process that
\* has been spawned and has not exited is in the registry.
C10_RegistryAddOnLaunch ==
  AppLive => \A p \in Pids : Alive(p) => p \in global_pids


\* the GUI thread is not inside a stop() call or the handler that made it
HandlerDone == mainPc \notin {"stop", "afterStop"}

\* C11: once the exit of a tracked process has been confirmed, by a
\* terminal status of the health monitor or by stop() on any path, and the
\* handler that confirmed it has finished, its pid is not in the registry.
C11_RegistryRemoveOnConfirmedExit ==
  HandlerDone => confirmed \cap global_pids = {}


\* the application exited through the exception hook, or with a session
\* still recording
AbnormalExit == mainPc = "exited" /\ (stopCtx = "hook" \/ is_recording)

\* C12: after an abnormal application exit no encoder process the
\* application launched is alive.
C12_NoOrphanAfterAbnormalExit ==
  AbnormalExit => \A p \in Pids : ~Alive(p)


\* the monitor emits an exited_error status in this step
EmitsError ==
  /\ Len(queue') > Len(queue)
  /\ queue'[Len(queue')].status = "exited_error"

\* the GUI thread handles an exited_error status in this step
HandlesError ==
  /\ queue # << >>
  /\ queue' = Tail(queue)
  /\ Head(queue).status = "exited_error"

\* C13: reporting and handling the failure of one encoder touches that
\* process only: exited_error is emitted for a process that exited with a
\* non-zero code, handling it removes that pid alone from the registry, and
\* neither step signals a process, changes the record collection or leaves
\* the recording state.
C13_FailureIsIndependent ==
  [][ (EmitsError \/ HandlesError) =>
        /\ is_recording /\ is_recording'
        /\ UNCHANGED << processes, procState, exitCode, stopVars,
                        cleanupKills, stdin >>
        /\ EmitsError =>
             LET p == queue'[Len(queue')].pid IN
               /\ procState[p] = "exited" /\ exitCode[p] # 0
               /\ global_pids' = global_pids
        /\ HandlesError => global_pids' = global_pids \ {Head(queue).pid}
    ]_vars

\* C13 witness: the failure of one encoder was reported and handled while
\* another encoder of the session is alive, recorded and registered
C13_Witness ==
  \E p, q \in RecordPids(processes) :
    /\ p # q
    /\ procState[p] = "exited" /\ exitCode[p] # 0
    /\ p \in confirmed /\ p \notin global_pids
    /\ Alive(q) /\ q \in global_pids
    /\ is_recording


\* C14: when stop() requests the graceful stop of a live process, it writes
\* a single quit byte to that process's standard-input pipe.
C14_GracefulStopIsQuitByte ==
  [][ (mainPc = "stop" /\ stopIdx' # stopIdx
         /\ Alive(processes[stopIdx].pid)) =>
        stdin'[processes[stopIdx].pid]
          = Append(stdin[processes[stopIdx].pid], "q") ]_vars


\* C15: a stop() call that has been entered returns, whatever the processes
\* of its records do (a delivered kill takes effect).
C15_StopTerminates == (mainPc = "stop") ~> (mainPc = "afterStop")

\* C15 witness: stop() has returned from a collection of two records, the
\* second of which ignored the graceful request and was killed
C15_Witness ==
  /\ mainPc = "afterStop"
  /\ Cardinality(stopSet) = 2
  /\ Has(trace, "wait:timeout")
  /\ Has(trace, "kill")


\* C16: the result of sanitize_filename holds none of \ / * ? : " < > | and
\* neither starts nor ends with whitespace.
C16_SanitizedIsClean ==
  /\ \A i \in 1..Len(sanitized) : sanitized[i] \notin InvalidChars
  /\ sanitized # << >> =>
       /\ sanitized[1] \notin Whitespace
       /\ sanitized[Len(sanitized)] \notin Whitespace

\* C16 witness: a name with leading whitespace and an invalid character was
\* sanitized to a non-empty result
C16_Witness ==
  /\ name # << >>
  /\ name[1] \in Whitespace
  /\ \E i \in 1..Len(name) : name[i] \in InvalidChars
  /\ \E i \in 1..Len(sanitized) : sanitized[i] = "_"

\* the reference: a leading bracketed annotation is stripped, and only a
\* leading one
StripLeadingAnnotation(s) ==
  IF CloseAt(s) # 0 THEN SubSeq(s, CloseAt(s) + 1, Len(s)) ELSE s

ReferenceSanitize(s) == Strip(ReplaceInvalid(StripLeadingAnnotation(s)))

\* C17: sanitize_filename equals the three-step reference: strip a leading
\* bracketed annotation, replace the invalid characters, trim.
C17_SanitizeMatchesReference == sanitized = ReferenceSanitize(name)


\* the largest even number not above n
EvenBelow(n, e) == e % 2 = 0 /\ e <= n /\ n < e + 2

\* C18: the geometry stored for a selected rectangle, and every geometry an
\* Area-mode task hands to the resolver, has the rectangle's x and y and
\* the largest even width and height not above the rectangle's.
C18_AreaGeometryIsEven ==
  /\ area_geo # << >> =>
       /\ area_geo[1] = rect.x /\ area_geo[2] = rect.y
       /\ EvenBelow(rect.w, area_geo[3])
       /\ EvenBelow(rect.h, area_geo[4])
  /\ screenInput # << >> =>
       /\ screenInput[3] % 2 = 0
       /\ screenInput[4] % 2 = 0

\* C18 witness: a 3x1 rectangle at an odd position reached the resolver as
\* 2x0 at the same position
C18_Witness ==
  /\ rect = [x |-> 1, y |-> 1, w |-> 3, h |-> 1]
  /\ screenInput = << 1, 1, 2, 0 >>


\* how an unsupported-system error names each task kind
KindNamed ==
  [Screen |-> "screen capture", Webcam |-> "webcam capture",
   Audio |-> "audio capture"]

\* C19: on a system other than Windows, Linux and macOS every task that
\* start() attempts fails with an error that names the task's kind; no
\* record is created and no process spawned for it, and the tasks after it
\* are attempted all the same.
C19_UnsupportedSystemFailsTaskOnly ==
  (mainPc = "start" /\ system \notin SupportedSystems) =>
    /\ processes = << >>
    /\ Spawned = {}
    /\ Len(outcome) + Len(tasks) = nTasks
    /\ Len(launchErrors) = Len(outcome)
    /\ \A i \in 1..Len(outcome) :
         /\ outcome[i] = "resolve_failed"
         /\ launchErrors[i].error[1] = "Unsupported OS for"
         /\ launchErrors[i].error[2] = KindNamed[launchErrors[i].label[1]]

\* C19 witness: on an unsupported system start() has walked two tasks of
\* different kinds, the second of them an audio task
C19_Witness ==
  /\ mainPc = "start"
  /\ system \notin SupportedSystems
  /\ tasks = << >>
  /\ Len(launchErrors) = 2
  /\ launchErrors[1].label[1] # "Audio"
  /\ launchErrors[2].label[1] = "Audio"


\* no two devices of the catalog have the same kind and identifier
CatalogIdsUnique ==
  \A i, j \in 1..Len(Catalog) :
    (Catalog[i].kind = Catalog[j].kind /\ Catalog[i].id = Catalog[j].id)
      => i = j

\* C20: with a device catalog whose identifiers are unique, the task labels
\* of the records of one session are pairwise distinct.
C20_LabelsDistinct ==
  CatalogIdsUnique =>
    \A i, j \in 1..Len(processes) :
      i # j => processes[i].task_name # processes[j].task_name

\* C21: within one session no two launched tasks are given the same output
\* file: the output paths of the records of a session are pairwise distinct.
C21_OutputPathsDistinct ==
  \A i, j \in 1..Len(processes) :
    i # j => processes[i].filename # processes[j].filename

\* C22: the status of a process is monotone: once the health monitor has
\* emitted a terminal status for a pid, every later status it emits for that
\* pid is the same terminal status (never running, never the other one).
C22_StatusMonotone ==
  [][ \A p \in Pids :
        IsTerminal(lastStatus[p]) => lastStatus'[p] = lastStatus[p] ]_vars

\* a terminal status was emitted for a process and the monitor has polled
\* the process again since
C22_Witness ==
  \E p \in Pids :
    /\ Len(queue) = 2
    /\ queue[1].pid = p /\ queue[2].pid = p
    /\ IsTerminal(queue[1].status)
    /\ lastStatus[p] = queue[2].status

\* Recorder.start() has made its launch attempt for every task it was given
LaunchAttemptsDone ==
  mainPc = "start" /\ tasks = << >> /\ Len(outcome) = nTasks

\* C23: a health monitor, a resource guard or a log reader is started only
\* when the launch attempt of every task of the session has completed; a
\* record is appended only while the session's monitors are not started, and
\* the list a started monitor iterates never changes.
C23_LaunchBeforeMonitors ==
  [][ /\ \A s \in Sessions :
           \/ mon[s].pc = "off" /\ mon'[s].pc # "off"
           \/ guard[s].pc = "off" /\ guard'[s].pc # "off"
           => LaunchAttemptsDone
      /\ \A p \in Pids, st \in Streams :
           reader[p][st].pc = "off" /\ reader'[p][st].pc # "off"
             => LaunchAttemptsDone
      /\ Len(processes') > Len(processes) => ~is_recording
      /\ \A s \in Sessions :
           mon[s].pc # "off" => mon'[s].list = mon[s].list ]_vars

\* a session of two tasks, one of which failed to launch, has its monitors
\* and readers started on the one record
C23_Witness ==
  /\ mainPc = "idle"
  /\ is_recording
  /\ session = 1
  /\ Cardinality({ w \in Widgets : indicator[w] = "pending" }) = 2
  /\ Len(mon[1].list) = 1
  /\ mon[1].pc = "loop"
  /\ guard[1].pc = "loop"
  /\ reader[1]["stdout"].pc = "test"

\* a stop path has run the shutdown routine and come to its end: the user
\* stop has returned, or the window close or the exception hook has got to
\* the exit of the application
ShutdownDone ==
  \/ mainPc = "idle" /\ ~is_recording
  \/ mainPc \in {"exiting", "exited"}

\* stop() has been called on every background thread of the session
ToldToStop ==
  /\ \A s \in Sessions : mon[s].pc # "off" => ~mon[s].running
  /\ \A s \in Sessions : guard[s].pc # "off" => ~guard[s].running
  /\ \A p \in Pids, st \in Streams :
       reader[p][st].pc # "off" => ~reader[p][st].running

\* run() of every background thread of the session has returned, or the
\* application has exited
ThreadsHalted ==
  \/ mainPc = "exited"
  \/ /\ \A s \in Sessions : mon[s].pc \in {"off", "done"}
     /\ \A s \in Sessions : guard[s].pc \in {"off", "done"}
     /\ \A p \in Pids, st \in Streams : reader[p][st].pc \in {"off", "done"}

\* C24: on every stop path, once the shutdown routine has run, every
\* background loop of the session has been told to stop, and eventually
\* every one of them has halted.
C24_StopHaltsEveryLoop ==
  /\ [](ShutdownDone => ToldToStop)
  /\ ShutdownDone ~> ThreadsHalted

\* C25: once stop() has cleared the flag of the health monitor or of the
\* resource guard, the loop starts no further iteration (the monitor only
\* finishes the scan it is in, the guard emits no warning), and its thread
\* eventually leaves run().
C25_CooperativeCancellation ==
  /\ [][ \A s \in Sessions :
           /\ (mon[s].pc = "loop" /\ ~mon[s].running)
                => mon'[s].pc \in {"loop", "done"}
           /\ (guard[s].pc # "off" /\ ~guard[s].running)
                => /\ guard'[s].warned = guard[s].warned
                   /\ guard'[s].polledLow = guard[s].polledLow ]_vars
  /\ \A s \in Sessions :
       (mon[s].pc # "off" /\ ~mon[s].running) ~> (mon[s].pc = "done")
  /\ \A s \in Sessions :
       (guard[s].pc # "off" /\ ~guard[s].running) ~> (guard[s].pc = "done")

\* the health monitor was told to stop in the middle of an iteration over
\* two records, and the resource guard has left run() after its stop()
C25_Witness ==
  /\ ~mon[1].running
  /\ mon[1].pc = "scan"
  /\ mon[1].idx = 2
  /\ ~guard[1].running
  /\ guard[1].pc = "done"

\* C26: a log reader whose stream has reached its end (the encoder has
\* exited) or that has been told to stop eventually leaves run(), also when
\* it was told to stop while the encoder is alive and writes nothing more.
C26_ReaderTerminates ==
  \A p \in Pids, st \in Streams :
    (reader[p][st].pc # "off" /\ (~Alive(p) \/ ~reader[p][st].running))
      ~> (reader[p][st].pc = "done")

\* C27: the record collection of a session changes only by an append of the
\* launch sequence and by the clearing of stop() (a new Recorder begins with
\* an empty one); no step of a health monitor mutates it, and the list a
\* started monitor iterates stays as it is, also while stop() runs.
C27_CollectionMutators ==
  [][ /\ processes' # processes =>
           \/ /\ mainPc = "idle" /\ mainPc' = "start"
              /\ processes' = << >>
           \/ /\ mainPc = "start" /\ mainPc' = "start"
              /\ Len(processes') = Len(processes) + 1
              /\ SubSeq(processes', 1, Len(processes)) = processes
           \/ /\ mainPc = "stop" /\ mainPc' = "afterStop"
              /\ processes' = << >>
      /\ \A s \in Sessions :
           mon[s].pc # "off" => mon'[s].list = mon[s].list ]_vars

\* stop() has cleared the Recorder's collection while the health monitor is
\* in the middle of an iteration over its two records
C27_Witness ==
  /\ mainPc = "afterStop"
  /\ processes = << >>
  /\ mon[1].pc = "scan"
  /\ mon[1].idx = 2
  /\ Len(mon[1].list) = 2

\* C28: a record whose process has already exited when stop() reaches it
\* gets neither the graceful signal nor the kill, no error is logged for it,
\* and stop() goes on with the next record.
C28_ExitedRecordIsSkipped ==
  [][ (mainPc = "stop" /\ stopIdx' # stopIdx
         /\ procState[processes[stopIdx].pid] = "exited") =>
        /\ trace' = << >>
        /\ stopErrors' = stopErrors
        /\ stopIdx' = stopIdx + 1 ]_vars

\* C29: whenever an encoder of the session has been launched, the directory
\* its output path lies in (Recorder.project_dir) exists: it was created, or
\* found existing, before the launch, and is no directory the session failed
\* to create.
C29_DirectoryBeforeLaunch ==
  processes # << >> => DirExists(fs, project_dir)

\* C30: while no recording is in progress and no handler runs (before the
\* first start, after a failed start, after a completed user stop) every
\* status indicator shows its reset value: no status event of a stopped
\* session is applied to an indicator.
C30_IndicatorsStayReset ==
  (mainPc = "idle" /\ ~is_recording) => indicator = ResetIndicators

\* the GUI thread is inside the branch of toggle_recording that starts a
\* session: the Recorder is constructed and set_ui_state(recording=True), the
\* last statement of the branch, has not run
StartInProgress == mainPc = "start"

\* this step constructs a Recorder and binds MainWindow.recorder to it
NewRecorder == ~StartInProgress /\ StartInProgress'

====
